---------------------------- MODULE Spec2Model ----------------------------
(***************************************************************************)
(* The Abeles characteristic-matrix reflectivity pipeline                   *)
(*   abeles(q, beta, d) = reflectivity(resultant_matrix(                    *)
(*       characteristic_matrices(fresnel_reflectance(kn),                   *)
(*                               phase_factor(kn, d))))                     *)
(* with kn = normal_wavevectors(q, beta), as a state machine over the       *)
(* arrays the functions allocate, read and write.                           *)
(*                                                                          *)
(* Arithmetic is exact.  A number is <<a, b, n>>, the complex rational      *)
(* (a + b*i)/n in lowest terms with n > 0; n = 0 marks the two non-finite   *)
(* IEEE-754 outcomes, NaN = <<0,0,0>> and Inf = <<1,0,0>>.                  *)
(* Units: an entry b of beta stands for the density b/(4*pi), an entry t of *)
(* d for the thickness t*pi/2.  Then 4*pi*(beta[n] - beta[0]) is the        *)
(* integer difference of the entries and exp(1j*kn*d) is a power of i       *)
(* whenever kn*d is a real integer.  Init draws only inputs on which every  *)
(* square root and exponential of the pipeline is exact in this sense.      *)
(***************************************************************************)
EXTENDS Integers, FiniteSets, Sequences, TLC

\* ------------------------------------------------------------ bounds
MaxLayers == 4
MaxNq == 2
MaxCalls == 2

QVals == {0, 4, 5}
BetaVals == {0, 1, 4}
DVals == {0, 1}
Dtypes == {"float64", "complex128"}

\* ------------------------------------------------------------ numbers
NaN == <<0, 0, 0>>
Inf == <<1, 0, 0>>
Zero == <<0, 0, 1>>
One == <<1, 0, 1>>
Half == <<1, 0, 2>>

Abs(x) == IF x < 0 THEN -x ELSE x

RECURSIVE Gcd(_, _)
Gcd(x, y) == IF y = 0 THEN x ELSE Gcd(y, x % y)

\* (a + b*i)/n with n > 0, brought to lowest terms
Norm(a, b, n) ==
    LET g == Gcd(Gcd(Abs(a), Abs(b)), n)
    IN  <<a \div g, b \div g, n \div g>>

Num(x) == <<x, 0, 1>>
IsFinite(x) == x[3] # 0
IsNaN(x) == x = NaN
IsZero(x) == IsFinite(x) /\ x[1] = 0 /\ x[2] = 0

Neg(x) == IF IsFinite(x) THEN <<-x[1], -x[2], x[3]>> ELSE x
Conj(x) == IF IsFinite(x) THEN <<x[1], -x[2], x[3]>> ELSE x
Real(x) == IF IsFinite(x) THEN Norm(x[1], 0, x[3]) ELSE x

Add(x, y) ==
    IF IsNaN(x) \/ IsNaN(y) THEN NaN
    ELSE IF ~IsFinite(x) /\ ~IsFinite(y) THEN NaN
    ELSE IF ~IsFinite(x) \/ ~IsFinite(y) THEN Inf
    ELSE Norm(x[1] * y[3] + y[1] * x[3], x[2] * y[3] + y[2] * x[3], x[3] * y[3])

Sub(x, y) == Add(x, Neg(y))

Mul(x, y) ==
    IF IsNaN(x) \/ IsNaN(y) THEN NaN
    ELSE IF ~IsFinite(x) \/ ~IsFinite(y)
         THEN IF IsZero(x) \/ IsZero(y) THEN NaN ELSE Inf
    ELSE Norm(x[1] * y[1] - x[2] * y[2], x[1] * y[2] + x[2] * y[1], x[3] * y[3])

\* IEEE-754 division: 0/0 is NaN, x/0 is infinite, nothing is raised
Div(x, y) ==
    IF IsNaN(x) \/ IsNaN(y) THEN NaN
    ELSE IF ~IsFinite(x) THEN (IF IsFinite(y) THEN Inf ELSE NaN)
    ELSE IF ~IsFinite(y) THEN Zero
    ELSE IF IsZero(y) THEN (IF IsZero(x) THEN NaN ELSE Inf)
    ELSE LET m == y[1] * y[1] + y[2] * y[2]
         IN  Norm((x[1] * y[1] + x[2] * y[2]) * y[3],
                  (x[2] * y[1] - x[1] * y[2]) * y[3],
                  x[3] * m)

IsSquare(x) == \E s \in 0..x : s * s = x
\* the square root on the lattice of exact values: exact on a perfect
\* square (all that Init admits), rounded down elsewhere
ISqrt(x) == CHOOSE s \in 0..x : s * s <= x /\ (s + 1) * (s + 1) > x

\* a real number whose square root is an exact rational or i times one
ExactRoot(x) == IsFinite(x) /\ x[2] = 0 /\ IsSquare(Abs(x[1])) /\ IsSquare(x[3])

\* np.sqrt: on a float64 array a negative radicand gives NaN, on a
\* complex128 array the principal root, with non-negative imaginary part
Sqrt(dtype, x) ==
    IF ~IsFinite(x) THEN x
    ELSE IF x[1] >= 0 THEN <<ISqrt(x[1]), 0, ISqrt(x[3])>>
    ELSE IF dtype = "float64" THEN NaN
    ELSE <<0, ISqrt(-x[1]), ISqrt(x[3])>>

\* a phase p (in units of pi/2) at which exp(1j*p) is exact
ExactPhase(p) == ~IsFinite(p) \/ (p[2] = 0 /\ p[3] = 1)

IPow(k) == CASE k = 0 -> <<1, 0, 1>> [] k = 1 -> <<0, 1, 1>>
             [] k = 2 -> <<-1, 0, 1>> [] OTHER -> <<0, -1, 1>>

\* np.exp(1j * p) and np.exp(-1j * p)
ExpI(p) == IF ~IsFinite(p) THEN NaN ELSE IPow(p[1] % 4)
ExpNegI(p) == ExpI(Neg(p))

\* ------------------------------------------------------------ arrays
\* Arrays are functions on 0..len-1, as the code indexes them.
Len0(a) == Cardinality(DOMAIN a)
\* the length of the last axis of a (number_q, columns) array, number_q >= 1
Cols(a) == Len0(a[0])
Empty == <<>>
\* the array a with every element computed once (an allocated array, not
\* an expression re-evaluated at each read)
Stored(a) == IF a = a THEN a ELSE Empty

\* the radicand k0^2 - 4*pi*(beta[n] - beta[0]) for one q value qv
Radicand(qv, beta_, n) ==
    LET k0 == Mul(Half, Num(qv))
    IN  Sub(Mul(k0, k0), Sub(Num(beta_.v[n]), Num(beta_.v[0])))

\* normal_wavevectors with k0 a view of q scaled in place (q *= 0.5)
normal_wavevectors_halve_q(q_, beta_) ==
    IF Len0(beta_.v) = 0
    THEN [raised |-> TRUE, kn |-> Empty, q |-> q_, beta |-> beta_]
    ELSE [raised |-> FALSE,
          kn |-> [qi \in DOMAIN q_ |-> [n \in DOMAIN beta_.v |->
                     Sqrt(beta_.dtype, Radicand(q_[qi], beta_, n))]],
          q |-> [qi \in DOMAIN q_ |-> q_[qi] \div 2], beta |-> beta_]

\* def normal_wavevectors(q, beta): beta[0] raises IndexError on an empty
\* beta; otherwise a new (number_q, number_layers) array is returned.
\* q and beta are the contents of the arguments when the call ends.
normal_wavevectors(q_, beta_) ==
    IF Len0(beta_.v) = 0
    THEN [raised |-> TRUE, kn |-> Empty, q |-> q_, beta |-> beta_]
    ELSE [raised |-> FALSE,
          kn |-> [qi \in DOMAIN q_ |-> [n \in DOMAIN beta_.v |->
                     Sqrt(beta_.dtype, Radicand(q_[qi], beta_, n))]],
          q |-> q_, beta |-> beta_]

\* phase_factor zeroing the superphase thickness in the caller's d (d[0] = 0)
\* instead of column 0 of the product
phase_factor_zero_d0(kn_, d_) ==
    LET N == Cols(kn_)
        L == Len0(d_)
        P == IF N = 1 THEN L ELSE N
        d0 == [j \in DOMAIN d_ |-> IF j = 0 THEN 0 ELSE d_[j]]
        prod == [qi \in DOMAIN kn_ |-> [n \in 0..(P - 1) |->
                    Mul(kn_[qi][IF N = 1 THEN 0 ELSE n],
                        Num(d0[IF L = 1 THEN 0 ELSE n]))]]
    IN  IF ~(L = N \/ L = 1 \/ N = 1) \/ P = 0
        THEN [raised |-> TRUE, phi_t |-> Empty, kn |-> kn_, d |-> d_]
        ELSE [raised |-> FALSE, phi_t |-> prod, kn |-> kn_, d |-> d0]

\* phase_factor working in place on its argument (kn *= d; phi_t = kn):
\* the product and the zeroed column 0 land in the caller's kn
phase_factor_in_place(kn_, d_) ==
    LET N == Cols(kn_)
        L == Len0(d_)
        P == IF N = 1 THEN L ELSE N
        prod == [qi \in DOMAIN kn_ |-> [n \in 0..(P - 1) |->
                    Mul(kn_[qi][IF N = 1 THEN 0 ELSE n],
                        Num(d_[IF L = 1 THEN 0 ELSE n]))]]
        phi_t == [qi \in DOMAIN kn_ |-> [prod[qi] EXCEPT ![0] = Zero]]
    IN  IF ~(L = N \/ L = 1 \/ N = 1) \/ P = 0
        THEN [raised |-> TRUE, phi_t |-> Empty, kn |-> kn_, d |-> d_]
        ELSE [raised |-> FALSE, phi_t |-> phi_t, kn |-> phi_t, d |-> d_]

\* def phase_factor(kn, d): phi_t = kn * d broadcasts d along the last axis
\* (equal lengths, or one of them 1) and raises ValueError otherwise;
\* phi_t[:, 0] = zeros then overwrites column 0 of the new array (IndexError
\* when it has no column).
phase_factor(kn_, d_) ==
    LET N == Cols(kn_)
        L == Len0(d_)
        P == IF N = 1 THEN L ELSE N
        prod == [qi \in DOMAIN kn_ |-> [n \in 0..(P - 1) |->
                    Mul(kn_[qi][IF N = 1 THEN 0 ELSE n],
                        Num(d_[IF L = 1 THEN 0 ELSE n]))]]
    IN  IF ~(L = N \/ L = 1 \/ N = 1) \/ P = 0
        THEN [raised |-> TRUE, phi_t |-> Empty, kn |-> kn_, d |-> d_]
        ELSE [raised |-> FALSE,
              phi_t |-> [qi \in DOMAIN kn_ |-> [prod[qi] EXCEPT ![0] = Zero]],
              kn |-> kn_, d |-> d_]

\* fresnel_reflectance with numerator and denominator exchanged
fresnel_reflectance_inverted(kn_) ==
    [r |-> [qi \in DOMAIN kn_ |-> [n \in 0..(Cols(kn_) - 2) |->
               Div(Add(kn_[qi][n], kn_[qi][n + 1]),
                   Sub(kn_[qi][n], kn_[qi][n + 1]))]],
     kn |-> kn_]

\* def fresnel_reflectance(kn): (kn[:, :-1] - kn[:, 1:]) / (kn[:, :-1] + kn[:, 1:])
fresnel_reflectance(kn_) ==
    [r |-> [qi \in DOMAIN kn_ |-> [n \in 0..(Cols(kn_) - 2) |->
               Div(Sub(kn_[qi][n], kn_[qi][n + 1]),
                   Add(kn_[qi][n], kn_[qi][n + 1]))]],
     kn |-> kn_]

\* characteristic_matrices whose phase columns are shifted by `shift`:
\* exp(+-1j * phi[:, 1+shift : ...]) in place of phi[:, 1:-1]
characteristic_matrices_shifted(r_, phi_, shift) ==
    LET C == Cols(r_)
        P == Cols(phi_)
        lhs == IF C >= 1 THEN C - 1 ELSE 0
        rhs == IF P >= 2 THEN P - 2 ELSE 0
        src(n) == IF rhs = lhs THEN n + shift ELSE 1 + shift
        M00 == [qi \in DOMAIN r_ |-> [n \in 0..(C - 1) |->
                   IF n = 0 THEN One ELSE ExpI(phi_[qi][src(n)])]]
        M11 == [qi \in DOMAIN r_ |-> [n \in 0..(C - 1) |->
                   IF n = 0 THEN One ELSE ExpNegI(phi_[qi][src(n)])]]
        M10 == [qi \in DOMAIN r_ |-> [n \in 0..(C - 1) |-> Mul(r_[qi][n], M00[qi][n])]]
        M01 == [qi \in DOMAIN r_ |-> [n \in 0..(C - 1) |-> Mul(r_[qi][n], M11[qi][n])]]
    IN  IF ~(rhs = lhs \/ rhs = 1)
        THEN [raised |-> TRUE, M |-> Empty, r |-> r_, phi |-> phi_]
        ELSE [raised |-> FALSE,
              M |-> [a \in 0..1 |-> [b \in 0..1 |->
                        IF a = 0 THEN (IF b = 0 THEN M00 ELSE M01)
                                 ELSE (IF b = 0 THEN M10 ELSE M11)]],
              r |-> r_, phi |-> phi_]

\* the phase of the layer below the interface: phi[:, 2:]
characteristic_matrices_layer_below(r_, phi_) == characteristic_matrices_shifted(r_, phi_, 1)

\* the phase of the layer above the previous interface: phi[:, :-2]
characteristic_matrices_layer_before(r_, phi_) == characteristic_matrices_shifted(r_, phi_, -1)

\* def characteristic_matrices(r, phi): M = ones; columns 1.. of M[0,0] and
\* M[1,1] are assigned exp(+-1j * phi[:, 1:-1]) (ValueError unless the
\* right-hand side has as many columns, or one); then M[1,0] = r * M[0,0]
\* and M[0,1] = r * M[1,1].
characteristic_matrices(r_, phi_) ==
    LET C == Cols(r_)
        P == Cols(phi_)
        lhs == IF C >= 1 THEN C - 1 ELSE 0
        rhs == IF P >= 2 THEN P - 2 ELSE 0
        src(n) == IF rhs = lhs THEN n ELSE 1
        M00 == [qi \in DOMAIN r_ |-> [n \in 0..(C - 1) |->
                   IF n = 0 THEN One ELSE ExpI(phi_[qi][src(n)])]]
        M11 == [qi \in DOMAIN r_ |-> [n \in 0..(C - 1) |->
                   IF n = 0 THEN One ELSE ExpNegI(phi_[qi][src(n)])]]
        M10 == [qi \in DOMAIN r_ |-> [n \in 0..(C - 1) |-> Mul(r_[qi][n], M00[qi][n])]]
        M01 == [qi \in DOMAIN r_ |-> [n \in 0..(C - 1) |-> Mul(r_[qi][n], M11[qi][n])]]
    IN  IF ~(rhs = lhs \/ rhs = 1)
        THEN [raised |-> TRUE, M |-> Empty, r |-> r_, phi |-> phi_]
        ELSE [raised |-> FALSE,
              M |-> [a \in 0..1 |-> [b \in 0..1 |->
                        IF a = 0 THEN (IF b = 0 THEN M00 ELSE M01)
                                 ELSE (IF b = 0 THEN M10 ELSE M11)]],
              r |-> r_, phi |-> phi_]

\* the (2, 2, number_q) array that B = M[:, :, :, 0] views
MSlice(M_, n) == [a \in 0..1 |-> [b \in 0..1 |-> [qi \in DOMAIN M_[0][0] |-> M_[a][b][qi][n]]]]

\* one iteration that forms the standard product B . M[:, :, :, i] instead
resultant_matrix_iter_ltr(M_, i_) ==
    LET Q == DOMAIN M_[0][0]
        new(a, b) == [qi \in Q |-> [M_[a][b][qi] EXCEPT ![0] =
                        Add(Mul(M_[a][0][qi][0], M_[0][b][qi][i_]),
                            Mul(M_[a][1][qi][0], M_[1][b][qi][i_]))]]
    IN  [a \in 0..1 |-> [b \in 0..1 |-> new(a, b)]]

\* one iteration without the temporaries p0, p1: each entry of B is
\* assigned as soon as it is computed, so B[1,0] and B[1,1] are formed from
\* the already overwritten B[0,0] and B[0,1]
resultant_matrix_iter_sequential(M_, i_) ==
    LET Q == DOMAIN M_[0][0]
        n00 == [qi \in Q |-> Add(Mul(M_[0][0][qi][0], M_[0][0][qi][i_]),
                                 Mul(M_[1][0][qi][0], M_[0][1][qi][i_]))]
        n10 == [qi \in Q |-> Add(Mul(n00[qi], M_[1][0][qi][i_]),
                                 Mul(M_[1][0][qi][0], M_[1][1][qi][i_]))]
        n01 == [qi \in Q |-> Add(Mul(M_[0][1][qi][0], M_[0][0][qi][i_]),
                                 Mul(M_[1][1][qi][0], M_[0][1][qi][i_]))]
        n11 == [qi \in Q |-> Add(Mul(n01[qi], M_[1][0][qi][i_]),
                                 Mul(M_[1][1][qi][0], M_[1][1][qi][i_]))]
        new(a, b) == IF a = 0 THEN (IF b = 0 THEN n00 ELSE n01)
                              ELSE (IF b = 0 THEN n10 ELSE n11)
    IN  [a \in 0..1 |-> [b \in 0..1 |->
            [qi \in Q |-> [M_[a][b][qi] EXCEPT ![0] = new(a, b)[qi]]]]]

\* One iteration i of the loop of resultant_matrix, B being the view
\* M[:, :, :, 0]: the contents of M when the iteration ends.  The first two
\* assignments write B[0,0] and B[1,0] into M before the second pair of
\* products is formed.
resultant_matrix_iter(M_, i_) ==
    LET Q == DOMAIN M_[0][0]
        p0a == [qi \in Q |-> Add(Mul(M_[0][0][qi][0], M_[0][0][qi][i_]),
                                 Mul(M_[1][0][qi][0], M_[0][1][qi][i_]))]
        p1a == [qi \in Q |-> Add(Mul(M_[0][0][qi][0], M_[1][0][qi][i_]),
                                 Mul(M_[1][0][qi][0], M_[1][1][qi][i_]))]
        M1 == [M_ EXCEPT ![0][0] = [qi \in Q |-> [M_[0][0][qi] EXCEPT ![0] = p0a[qi]]],
                         ![1][0] = [qi \in Q |-> [M_[1][0][qi] EXCEPT ![0] = p1a[qi]]]]
        p0b == [qi \in Q |-> Add(Mul(M1[0][1][qi][0], M1[0][0][qi][i_]),
                                 Mul(M1[1][1][qi][0], M1[0][1][qi][i_]))]
        p1b == [qi \in Q |-> Add(Mul(M1[0][1][qi][0], M1[1][0][qi][i_]),
                                 Mul(M1[1][1][qi][0], M1[1][1][qi][i_]))]
    IN  [M1 EXCEPT ![0][1] = [qi \in Q |-> [M1[0][1][qi] EXCEPT ![0] = p0b[qi]]],
                   ![1][1] = [qi \in Q |-> [M1[1][1][qi] EXCEPT ![0] = p1b[qi]]]]

\* the whole loop of resultant_matrix from iteration i on: the final M
RECURSIVE resultant_matrix_loop(_, _)
resultant_matrix_loop(M_, i_) ==
    IF i_ >= Cols(M_[0][0]) THEN M_
    ELSE resultant_matrix_loop(Stored(resultant_matrix_iter(M_, i_)), i_ + 1)

\* reflectivity dividing every q by the first q's B[0, 0]
reflectivity_first_q(B_) ==
    [qi \in DOMAIN B_[0][0] |->
        LET rr == Div(B_[0][1][qi], B_[0][0][0])
        IN  Real(Mul(rr, Conj(rr)))]

\* def reflectivity(B): r = B[0, 1] / B[0, 0]; np.real(r * np.conj(r))
reflectivity(B_) ==
    [qi \in DOMAIN B_[0][0] |->
        LET rr == Div(B_[0][1][qi], B_[0][0][qi])
        IN  Real(Mul(rr, Conj(rr)))]

\* ------------------------------------------------------------ state
VARIABLES q, beta, d, pc, kn, phi, r, M, B, i, R, raised_in, R_prev, calls

vars == <<q, beta, d, pc, kn, phi, r, M, B, i, R, raised_in, R_prev, calls>>

Arrays(S, lens) == UNION {[0..(n - 1) -> S] : n \in lens}

\* q arrays as the callers build them (np.linspace): strictly increasing
Increasing(a) == \A j \in DOMAIN a : j = 0 \/ a[j - 1] < a[j]

\* every square root the call can form is exact
ExactRoots(q_, beta_) ==
    \A qi \in DOMAIN q_ : \A n \in DOMAIN beta_.v :
        ExactRoot(Radicand(q_[qi], beta_, n))

\* every exponential the call can form is exact
ExactPhases(q_, beta_, d_) ==
    \A qi \in DOMAIN q_ : \A n \in DOMAIN beta_.v : \A j \in DOMAIN d_ :
        ExactPhase(Mul(Sqrt(beta_.dtype, Radicand(q_[qi], beta_, n)), Num(d_[j])))

Exact(q_, beta_, d_) == ExactRoots(q_, beta_) /\ ExactPhases(q_, beta_, d_)

Init ==
    /\ q \in {a \in Arrays(QVals, 1..MaxNq) : Increasing(a)}
    /\ beta \in [dtype : Dtypes, v : Arrays(BetaVals, 0..MaxLayers)]
    /\ ExactRoots(q, beta)
    /\ d \in Arrays(DVals, 0..MaxLayers)
    /\ ExactPhases(q, beta, d)
    /\ pc = "normal_wavevectors"
    /\ kn = Empty /\ phi = Empty /\ r = Empty /\ M = Empty
    /\ B = "unbound" /\ i = 0 /\ R = Empty /\ raised_in = "none"
    /\ R_prev = Empty /\ calls = 1

Raise(stage) ==
    /\ pc' = "raised"
    /\ raised_in' = stage

\* kn = normal_wavevectors(q, beta)
CallNormalWavevectors ==
    /\ pc = "normal_wavevectors"
    /\ LET res == normal_wavevectors(q, beta)
       IN  /\ q' = res.q /\ beta' = res.beta /\ kn' = res.kn
           /\ IF res.raised THEN Raise("normal_wavevectors")
              ELSE pc' = "phase_factor" /\ raised_in' = raised_in
    /\ UNCHANGED <<d, phi, r, M, B, i, R, R_prev, calls>>

\* phi = phase_factor(kn, d)
CallPhaseFactor ==
    /\ pc = "phase_factor"
    /\ LET res == phase_factor(kn, d)
       IN  /\ kn' = res.kn /\ d' = res.d /\ phi' = res.phi_t
           /\ IF res.raised THEN Raise("phase_factor")
              ELSE pc' = "fresnel_reflectance" /\ raised_in' = raised_in
    /\ UNCHANGED <<q, beta, r, M, B, i, R, R_prev, calls>>

\* r = fresnel_reflectance(kn)
CallFresnelReflectance ==
    /\ pc = "fresnel_reflectance"
    /\ LET res == fresnel_reflectance(kn)
       IN  kn' = res.kn /\ r' = res.r
    /\ pc' = "characteristic_matrices"
    /\ UNCHANGED <<q, beta, d, phi, M, B, i, R, raised_in, R_prev, calls>>

\* M = characteristic_matrices(r, phi)
CallCharacteristicMatrices ==
    /\ pc = "characteristic_matrices"
    /\ LET res == characteristic_matrices(r, phi)
       IN  /\ r' = res.r /\ phi' = res.phi /\ M' = res.M
           /\ IF res.raised THEN Raise("characteristic_matrices")
              ELSE pc' = "resultant_matrix" /\ raised_in' = raised_in
    /\ UNCHANGED <<q, beta, d, kn, B, i, R, R_prev, calls>>

\* resultant_matrix whose loop is range(0, M.shape[-1]): it starts at i = 0
ResultantMatrixEnter_from_zero ==
    /\ pc = "resultant_matrix"
    /\ IF Cols(M[0][0]) = 0
       THEN Raise("resultant_matrix") /\ UNCHANGED <<B, i>>
       ELSE B' = "M[:, :, :, 0]" /\ i' = 0 /\ pc' = "loop" /\ raised_in' = raised_in
    /\ UNCHANGED <<q, beta, d, kn, phi, r, M, R, R_prev, calls>>

\* resultant_matrix(M): B = M[:, :, :, 0] binds B to a view of M
\* (IndexError when M has no column); the loop starts at i = 1
ResultantMatrixEnter ==
    /\ pc = "resultant_matrix"
    /\ IF Cols(M[0][0]) = 0
       THEN Raise("resultant_matrix") /\ UNCHANGED <<B, i>>
       ELSE B' = "M[:, :, :, 0]" /\ i' = 1 /\ pc' = "loop" /\ raised_in' = raised_in
    /\ UNCHANGED <<q, beta, d, kn, phi, r, M, R, R_prev, calls>>

\* one pass of: for i in range(1, M.shape[-1])
ResultantMatrixLoop ==
    /\ pc = "loop"
    /\ i < Cols(M[0][0])
    /\ M' = resultant_matrix_iter(M, i)
    /\ i' = i + 1
    /\ UNCHANGED <<q, beta, d, pc, kn, phi, r, B, R, raised_in, R_prev, calls>>

\* return B
ResultantMatrixReturn ==
    /\ pc = "loop"
    /\ i >= Cols(M[0][0])
    /\ pc' = "reflectivity"
    /\ UNCHANGED <<q, beta, d, kn, phi, r, M, B, i, R, raised_in, R_prev, calls>>

\* return reflectivity(B), B read through the view
CallReflectivity ==
    /\ pc = "reflectivity"
    /\ R' = reflectivity(MSlice(M, 0))
    /\ pc' = "done"
    /\ UNCHANGED <<q, beta, d, kn, phi, r, M, B, i, raised_in, R_prev, calls>>

\* the caller calls abeles(q, beta, d) again with the same array objects;
\* the locals of the finished call are gone
CallAgain ==
    /\ pc \in {"done", "raised"}
    /\ calls < MaxCalls
    /\ calls' = calls + 1
    /\ R_prev' = R
    /\ pc' = "normal_wavevectors"
    /\ kn' = Empty /\ phi' = Empty /\ r' = Empty /\ M' = Empty
    /\ B' = "unbound" /\ i' = 0 /\ R' = Empty /\ raised_in' = "none"
    /\ UNCHANGED <<q, beta, d>>

Next ==
    \/ CallNormalWavevectors
    \/ CallPhaseFactor
    \/ CallFresnelReflectance
    \/ CallCharacteristicMatrices
    \/ ResultantMatrixEnter
    \/ ResultantMatrixLoop
    \/ ResultantMatrixReturn
    \/ CallReflectivity
    \/ CallAgain

Spec == Init /\ [][Next]_vars

\* resultant_matrix goes on running: from a position inside it the
\* interpreter executes the next statement, which moves the position (enter
\* the loop, return, raise) or the loop index
ResultantMatrixRuns ==
    /\ pc \in {"resultant_matrix", "loop"}
    /\ pc' \in {"loop", "reflectivity", "raised"}
    /\ i' \in {i, i + 1}

FairSpec == Spec /\ WF_<<pc, i>>(ResultantMatrixRuns)

\* def abeles(q, beta, d): the value returned when no stage raises
abeles(q_, beta_, d_) ==
    LET kn1 == Stored(normal_wavevectors(q_, beta_).kn)
        phi1 == Stored(phase_factor(kn1, d_).phi_t)
        r1 == Stored(fresnel_reflectance(kn1).r)
        M1 == Stored(characteristic_matrices(r1, phi1).M)
        B1 == Stored(MSlice(resultant_matrix_loop(M1, 1), 0))
    IN  reflectivity(B1)

\* ------------------------------------------------------------ claims
NLayers == Len0(beta.v)

\* the 2x2 matrix of interface n at q index qi, first index the row
Mat(Ms, qi, n) == [a \in 0..1 |-> [b \in 0..1 |-> Ms[a][b][qi][n]]]

\* standard 2x2 matrix multiplication
MatMul(X, Y) ==
    Stored([a \in 0..1 |-> [b \in 0..1 |-> Add(Mul(X[a][0], Y[0][b]), Mul(X[a][1], Y[1][b]))]])

\* Ms[0] . Ms[1] . ... . Ms[n]
RECURSIVE ProductLeftToRight(_, _, _)
ProductLeftToRight(Ms, qi, n) ==
    IF n = 0 THEN Mat(Ms, qi, 0)
    ELSE MatMul(ProductLeftToRight(Ms, qi, n - 1), Mat(Ms, qi, n))

\* Ms[n] . ... . Ms[1] . Ms[0]
RECURSIVE ProductRightToLeft(_, _, _)
ProductRightToLeft(Ms, qi, n) ==
    IF n = 0 THEN Mat(Ms, qi, 0)
    ELSE MatMul(Mat(Ms, qi, n), ProductRightToLeft(Ms, qi, n - 1))

MatFinite(X) == \A a \in 0..1 : \A b \in 0..1 : IsFinite(X[a][b])

\* the characteristic matrices as characteristic_matrices returned them,
\* before resultant_matrix wrote into M
MBuilt == Stored(characteristic_matrices(r, phi).M)

C2_CharacteristicMatrices ==
    (pc = "resultant_matrix" /\ NLayers >= 2 /\ Len0(d) = NLayers) =>
        \A qi \in DOMAIN q :
            /\ DOMAIN M[0][0][qi] = 0..(NLayers - 2)
            /\ M[0][0][qi][0] = One /\ M[1][1][qi][0] = One
            /\ \A n \in 1..(NLayers - 2) :
                  /\ M[0][0][qi][n] = ExpI(Mul(kn[qi][n], Num(d[n])))
                  /\ M[1][1][qi][n] = ExpNegI(Mul(kn[qi][n], Num(d[n])))
            /\ \A n \in 0..(NLayers - 2) :
                  /\ M[1][0][qi][n] = Mul(r[qi][n], M[0][0][qi][n])
                  /\ M[0][1][qi][n] = Mul(r[qi][n], M[1][1][qi][n])

\* C2 witness: matrices built for three layers where the phase factor of
\* layer 1 differs from 1 and from that of layer 2, with r non-zero.
C2_Witness ==
    /\ pc = "resultant_matrix" /\ NLayers = 3 /\ Len0(d) = 3
    /\ \E qi \in DOMAIN q :
          /\ IsFinite(kn[qi][1]) /\ IsFinite(kn[qi][2])
          /\ ExpI(Mul(kn[qi][1], Num(d[1]))) # One
          /\ ExpI(Mul(kn[qi][1], Num(d[1]))) # ExpI(Mul(kn[qi][2], Num(d[2])))
          /\ IsFinite(r[qi][1]) /\ ~IsZero(r[qi][1])

\* |(k0 - k1)/(k0 + k1)|^2 with k0 = q/2 and k1 = sqrt(k0^2 - 4*pi*(beta[1] - beta[0]))
FresnelSquared(qv, beta_) ==
    LET k0 == Mul(Half, Num(qv))
        k1 == Sqrt(beta_.dtype, Sub(Mul(k0, k0), Sub(Num(beta_.v[1]), Num(beta_.v[0]))))
        rr == Div(Sub(k0, k1), Add(k0, k1))
    IN  Real(Mul(rr, Conj(rr)))

C4_LengthMismatchRaises ==
    Len0(d) # NLayers => (pc # "done" /\ R = Empty)

\* C5 as stated: when beta and d have the same length N < 2, the error is
\* signalled before any pipeline stage has computed anything.
C5_FailsBeforeAnyStage ==
    (Len0(d) = NLayers /\ NLayers < 2 /\ pc = "raised") =>
        (kn = Empty /\ phi = Empty /\ r = Empty /\ M = Empty)

\* a division by zero occurred for q index qi in fresnel_reflectance or in
\* reflectivity (M[0,0,qi,0] is B[0,0,qi] once resultant_matrix returned)
DivisionByZero(qi) ==
    \/ \E n \in 0..(NLayers - 2) : IsZero(Add(kn[qi][n], kn[qi][n + 1]))
    \/ IsZero(M[0][0][qi][0])

\* the batch holding only the q value qv
Single(qv) == [j \in {0} |-> qv]

\* C6: with N >= 2 and d of length N nothing is raised; abeles returns one
\* entry per q; the entry of a q at which a division by zero occurred is
\* non-finite; every entry equals the one abeles returns for that q alone.
C6_DivisionByZeroPerQ ==
    /\ (NLayers >= 2 /\ Len0(d) = NLayers) => pc # "raised"
    /\ pc = "done" =>
          /\ DOMAIN R = DOMAIN q
          /\ \A qi \in DOMAIN q :
                /\ DivisionByZero(qi) => ~IsFinite(R[qi])
                /\ R[qi] = abeles(Single(q[qi]), beta, d)[0]

\* C6 witness: abeles has returned for a batch in which one q divided by
\* zero in fresnel_reflectance and another q has a finite non-zero entry.
C6_Witness ==
    /\ pc = "done"
    /\ \E qi \in DOMAIN q :
          \E n \in 0..(NLayers - 2) : IsZero(Add(kn[qi][n], kn[qi][n + 1]))
    /\ \E qi \in DOMAIN q : ~DivisionByZero(qi) /\ IsFinite(R[qi]) /\ ~IsZero(R[qi])

\* the other case of C6: a batch in which one q has B[0,0] = 0 in
\* reflectivity (and no zero sum in fresnel_reflectance) and another q has a
\* finite entry
C6_FinalRatioCase ==
    /\ pc = "done"
    /\ \E qi \in DOMAIN q :
          /\ \A n \in 0..(NLayers - 2) : ~IsZero(Add(kn[qi][n], kn[qi][n + 1]))
          /\ IsZero(M[0][0][qi][0])
    /\ \E qi \in DOMAIN q : ~DivisionByZero(qi) /\ IsFinite(R[qi])

\* a thickness t whose product with every wavevector of the call is an
\* exact phase
ExactThickness(t) ==
    \A qi \in DOMAIN kn : \A n \in DOMAIN kn[qi] : ExactPhase(Mul(kn[qi][n], Num(t)))

\* the thickness arrays that differ from d at most at index 0 and N-1
OuterVariants ==
    {[d EXCEPT ![0] = a, ![NLayers - 1] = b] :
        a \in {t \in DVals : ExactThickness(t)}, b \in {t \in DVals : ExactThickness(t)}}

\* C7: for N >= 2 and d of length N, abeles returns the same array for every
\* d' that differs from d only at index 0 and/or N-1; the phase of layer 0 is
\* zero, and the characteristic matrices do not depend on d[0] or d[N-1].
C7_OuterThicknessIgnored ==
    /\ phi # Empty => \A qi \in DOMAIN q : phi[qi][0] = Zero
    /\ (pc = "resultant_matrix" /\ NLayers >= 2 /\ Len0(d) = NLayers) =>
          \A d2 \in OuterVariants :
              characteristic_matrices(r, phase_factor(kn, d2).phi_t).M = M
    /\ (pc = "done" /\ NLayers >= 2 /\ Len0(d) = NLayers) =>
          \A d2 \in OuterVariants : abeles(q, beta, d2) = R

\* C7 witness: abeles has returned for three layers with non-zero d[0] and
\* d[2] whose phase factors would differ from 1, and another d' exists.
C7_Witness ==
    /\ pc = "done" /\ NLayers = 3 /\ Len0(d) = 3
    /\ d[0] # 0 /\ d[2] # 0
    /\ \E d2 \in OuterVariants : d2[0] # d[0] /\ d2[2] # d[2]
    /\ \E qi \in DOMAIN q :
          /\ IsFinite(kn[qi][0]) /\ IsFinite(kn[qi][2])
          /\ ExpI(Mul(kn[qi][0], Num(d[0]))) # One
          /\ ExpI(Mul(kn[qi][2], Num(d[2]))) # One
          /\ IsFinite(R[qi]) /\ ~IsZero(R[qi])

\* C8: a second call of abeles with the same array objects ends as the
\* first did: the same reflectivity at every q, or raising again.
C8_RepeatedCallSameResult ==
    (calls >= 2 /\ pc \in {"done", "raised"}) => R = R_prev

\* C8 witness: a second call has returned a finite non-zero reflectivity
\* for a stack with a finite layer.
C8_Witness ==
    /\ calls >= 2 /\ pc = "done" /\ NLayers >= 3
    /\ \E qi \in DOMAIN q : IsFinite(R[qi]) /\ ~IsZero(R[qi])

\* C9: no step of any call of abeles changes an element of the caller's
\* q, beta or d.
C9_ArgumentsUnchanged ==
    [][q' = q /\ beta' = beta /\ d' = d]_vars

\* C9 witness: a second call has run through the loop of resultant_matrix
\* and returned, with non-zero entries in q, beta and d.
C9_Witness ==
    /\ calls >= 2 /\ pc = "done" /\ NLayers >= 3 /\ Len0(d) = NLayers
    /\ d[0] # 0 /\ q[0] # 0 /\ beta.v[0] # 0

\* C10 as stated: resultant_matrix leaves every entry of M (the slice
\* M[:,:,:,0] included) as it was before the call.
C10_ResultantMatrixKeepsM ==
    [][pc = "loop" => M' = M]_vars


\* a real value x >= 0 (what np.real returns for |r|^2)
RealNonNegative(x) == IsFinite(x) /\ x[2] = 0 /\ x[1] >= 0

\* C11 as stated: for N >= 2, abeles returns one entry per element of q, in
\* the order of q, and every entry at whose q no division by zero occurred
\* is real and non-negative.
C11_RealNonNegative ==
    (pc = "done" /\ NLayers >= 2) =>
        /\ DOMAIN R = DOMAIN q
        /\ \A qi \in DOMAIN q :
              /\ R[qi] = abeles(Single(q[qi]), beta, d)[0]
              /\ ~DivisionByZero(qi) => RealNonNegative(R[qi])

\* C11 where np.sqrt returned no NaN wavevector for that q: the entry is
\* real and non-negative
C11_HoldsWithoutNaNWavevector ==
    (pc = "done" /\ NLayers >= 2) =>
        /\ DOMAIN R = DOMAIN q
        /\ \A qi \in DOMAIN q :
              /\ R[qi] = abeles(Single(q[qi]), beta, d)[0]
              /\ (~DivisionByZero(qi) /\ \A n \in DOMAIN kn[qi] : ~IsNaN(kn[qi][n]))
                    => RealNonNegative(R[qi])

\* the evanescent regime reached with a complex-typed beta: a finite entry
\* from an imaginary wavevector
C11_EvanescentCase ==
    /\ pc = "done" /\ NLayers >= 2
    /\ \E qi \in DOMAIN q :
          /\ ~DivisionByZero(qi) /\ RealNonNegative(R[qi]) /\ ~IsZero(R[qi])
          /\ \E n \in DOMAIN kn[qi] : IsFinite(kn[qi][n]) /\ kn[qi][n][2] > 0

\* x is real and negative
NegativeReal(x) == IsFinite(x) /\ x[2] = 0 /\ x[1] < 0

\* C12 as stated: normal_wavevectors raises no error for a negative
\* radicand and returns for that (q, n) a purely imaginary wavevector with
\* non-negative imaginary part, never NaN, whatever the dtype of beta.
C12_NegativeRadicandImaginary ==
    /\ (\E qi \in DOMAIN q : \E n \in DOMAIN beta.v :
            NegativeReal(Radicand(q[qi], beta, n)))
          => raised_in # "normal_wavevectors"
    /\ \A qi \in DOMAIN kn : \A n \in DOMAIN kn[qi] :
          NegativeReal(Radicand(q[qi], beta, n)) =>
              /\ ~IsNaN(kn[qi][n])
              /\ IsFinite(kn[qi][n]) /\ kn[qi][n][1] = 0 /\ kn[qi][n][2] >= 0

\* C12 for a complex-typed beta only: the wavevector of a negative radicand
\* is purely imaginary with positive imaginary part
C12_HoldsForComplexBeta ==
    beta.dtype = "complex128" =>
        \A qi \in DOMAIN kn : \A n \in DOMAIN kn[qi] :
            NegativeReal(Radicand(q[qi], beta, n)) =>
                IsFinite(kn[qi][n]) /\ kn[qi][n][1] = 0 /\ kn[qi][n][2] > 0


\* C13: for every N >= 2 resultant_matrix starts its loop at i = 1, every
\* pass folds interface i into B and moves to i + 1, it returns when
\* i = N - 1 and not before, so it has folded the interfaces 1, 2, ..., N-2
\* in increasing order, each once (none for N = 2); and once entered it
\* does return.
C13_LoopFoldsEachInterfaceOnce ==
    /\ [](pc = "loop" => i \in 1..(NLayers - 1))
    /\ [](pc \in {"reflectivity", "done"} => (NLayers >= 2 /\ i = NLayers - 1))
    /\ [][(pc = "resultant_matrix" /\ pc' = "loop") => i' = 1]_vars
    /\ [][(pc = "loop" /\ pc' = "loop") =>
            (i <= NLayers - 2 /\ i' = i + 1 /\ M' = resultant_matrix_iter(M, i))]_vars
    /\ [][(pc = "loop" /\ pc' # "loop") =>
            (pc' = "reflectivity" /\ i = NLayers - 1 /\ i' = i /\ M' = M)]_vars
    /\ (pc = "resultant_matrix" /\ NLayers >= 2) ~> (pc = "reflectivity")

\* C13 witness: resultant_matrix has returned after folding interface 1 and
\* then interface 2 of a stack of four layers.
C13_Witness ==
    /\ pc = "reflectivity" /\ NLayers = 4 /\ i = 3
    /\ M = resultant_matrix_iter(resultant_matrix_iter(MBuilt, 1), 2)
    /\ \E qi \in DOMAIN q : MatFinite(Mat(M, qi, 0)) /\ Mat(M, qi, 0) # Mat(MBuilt, qi, 0)

\* the other case of C13: resultant_matrix has returned for two layers
\* without a multiplication
C13_NoMultiplicationCase ==
    pc = "reflectivity" /\ NLayers = 2 /\ i = 1 /\ M = MBuilt

\* C14: phase_factor leaves its kn argument as it was: the kn that
\* fresnel_reflectance receives is the array normal_wavevectors returned,
\* column 0 still q/2, and r is computed from it.
C14_PhaseFactorKeepsKn ==
    /\ pc \in {"fresnel_reflectance", "characteristic_matrices"} =>
          /\ kn = normal_wavevectors(q, beta).kn
          /\ \A qi \in DOMAIN q : kn[qi][0] = Mul(Half, Num(q[qi]))
    /\ pc = "characteristic_matrices" =>
          r = fresnel_reflectance(normal_wavevectors(q, beta).kn).r

\* C14 witness: fresnel_reflectance has run after phase_factor zeroed
\* column 0 of phi, with q and d[0] non-zero and a finite non-zero r[q,0].
C14_Witness ==
    /\ pc = "characteristic_matrices" /\ NLayers >= 2 /\ Len0(d) = NLayers
    /\ d[0] # 0
    /\ \E qi \in DOMAIN q :
          /\ q[qi] # 0 /\ phi[qi][0] = Zero /\ kn[qi][0] # Zero
          /\ IsFinite(r[qi][0]) /\ ~IsZero(r[qi][0])

\* C15: every pass i of the loop replaces B by the 2x2 product
\* M[:,:,q,i] . B of the matrices held when the pass began (all four entries
\* from the old B and M[:,:,:,i] only) and changes no M[:,:,:,j] with j >= 1,
\* so every later pass reads interface matrices as characteristic_matrices
\* built them.
C15_SimultaneousProduct ==
    /\ [][(pc = "loop" /\ pc' = "loop") =>
            /\ \A qi \in DOMAIN q :
                  Mat(M', qi, 0) = MatMul(Mat(M, qi, i), Mat(M, qi, 0))
            /\ \A a \in 0..1 : \A b \in 0..1 : \A qi \in DOMAIN q :
                  \A j \in 1..(Cols(M[0][0]) - 1) : M'[a][b][qi][j] = M[a][b][qi][j]]_vars
    /\ [](pc = "loop" =>
            \A j \in 1..(Cols(M[0][0]) - 1) : MSlice(M, j) = MSlice(MBuilt, j))

\* C15 witness: two passes have run on a stack of four layers, and in the
\* first one assigning B[0,0] and B[0,1] before forming B[1,0] and B[1,1]
\* would have given another finite matrix.
C15_Witness ==
    /\ pc = "loop" /\ NLayers = 4 /\ i = 3
    /\ \E qi \in DOMAIN q :
          /\ MatFinite(Mat(M, qi, 0))
          /\ MatFinite(Mat(resultant_matrix_iter_sequential(MBuilt, 1), qi, 0))
          /\ Mat(resultant_matrix_iter_sequential(MBuilt, 1), qi, 0)
                # Mat(resultant_matrix_iter(MBuilt, 1), qi, 0)

=============================================================================
